---- MODULE Spec2Model ----
(***************************************************************************)
(* Model of src/src/main.cpp: the DS18B20 polling state machine of loop()  *)
(* and the three drawing helpers it calls.                                 *)
(*                                                                         *)
(* Units.  Celsius values are integers in hundredths of a degree           *)
(* (21.95 C is 2195); the float subtraction and comparison of line 184 are *)
(* exact on this grid.  Fahrenheit values are integers in five-hundredths  *)
(* of a degree, the grid on which C * 9/5 + 32 of a hundredths value is    *)
(* exact.  Times are milliseconds.  millis() is an unsigned counter of     *)
(* MillisBits bits; the hardware counter has 32, the model a narrower one  *)
(* so that its wrap-around is reached by ticking.                          *)
(***************************************************************************)
EXTENDS Integers, Sequences, FiniteSets, TLC

VARIABLES
    currentState,          \* State currentState                   (line 64)
    previousMillis,        \* unsigned long previousMillis         (line 65)
    temperatureC,          \* float temperatureC, hundredths       (line 68)
    temperatureF,          \* float temperatureF, five-hundredths  (line 69)
    previousTemperatureC,  \* float previousTemperatureC           (line 70)
    valueChanged,          \* bool valueChanged                    (line 71)
    sensorConnected,       \* bool sensorConnected                 (line 72)
    firstRun,              \* bool firstRun                        (line 73)
    tft,                   \* what the display shows
    millis,                \* the value millis() returns, MillisBits wide
    uptime,                \* history: real milliseconds since power-up
    requestUptime,         \* history: uptime of the latest requestTemperatures()
    commitUptime,          \* history: uptime of the latest reading
    commits,               \* history: number of readings taken in WAIT
    priorC,                \* history: the reading before the current one
    storedC,               \* history: previousTemperatureC before the latest reading
    valueDraws,            \* history: updateTemperatureValues() calls since that reading
    pc,                    \* "setup" before setup() has run, "loop" after it
    entered,               \* history: currentState at the start of the latest loop()
    calls                  \* history: sensor and draw calls of the latest loop()

vars == <<currentState, previousMillis, temperatureC, temperatureF,
          previousTemperatureC, valueChanged, sensorConnected, firstRun, tft,
          millis, uptime, requestUptime, commitUptime, commits, priorC, storedC,
          valueDraws, pc, entered, calls>>

(***************************************************************************)
(* Bounds of the model.                                                    *)
(***************************************************************************)
MillisBits == 13
StepUnit == 250
MaxStepUnits == 5
MaxUptime == 9000

MillisModulus == 2 ^ MillisBits

\* the time between two calls of loop()
Steps == {k * StepUnit : k \in 1..MaxStepUnits}

(***************************************************************************)
(* Program constants.                                                      *)
(***************************************************************************)
sensorDelayInterval == 750
sensorReadInterval == 2000
SetupDelay == 1000
\* DEVICE_DISCONNECTED_C of DallasTemperature.h is -127 degrees
DEVICE_DISCONNECTED_C == -12700
\* 0.1 degrees, the threshold of line 184
ChangeThreshold == 10
\* float x = 0.0
InitialTemperature == 0

States == {"READ_SENSOR", "WAIT", "UPDATE_DISPLAY"}

\* the values sensors.getTempCByIndex(0) may return
Readings == {DEVICE_DISCONNECTED_C, 5, 2195, 2204, 2213}

\* no phase entered yet
None == "none"
\* a row of the display, or a remembered reading, is a sequence: empty when
\* there is none, else the one value
Blank == <<>>
NoReading == <<>>

(***************************************************************************)
(* Pure helpers.                                                           *)
(***************************************************************************)
\* abs() of line 184
Abs(x) == IF x < 0 THEN -x ELSE x

\* variant: the difference is taken in signed arithmetic
ElapsedSigned(currentMillis, previous) == currentMillis - previous

\* currentMillis - previousMillis in unsigned arithmetic
Elapsed(currentMillis, previous) == (currentMillis - previous) % MillisModulus

\* variant: 9/5 taken as an integer quotient, celsius * 1 + 32
toFahrenheitIntegerRatio(celsius) == 5 * celsius + 16000

\* DallasTemperature::toFahrenheit: celsius * 1.8 + 32, in five-hundredths
toFahrenheit(celsius) == 9 * celsius + 16000

\* String(float): two decimals, rounded half away from zero; the result is in
\* hundredths, v is in units of 1/scale
StringOf(v, scale) ==
    LET n == Abs(v) * 100
        q == (2 * n + scale) \div (2 * scale)
    IN  IF v < 0 THEN -q ELSE q

(***************************************************************************)
(* The drawing helpers, as functions of the display contents.              *)
(***************************************************************************)
\* nothing painted yet
BlankScreen ==
    [title |-> FALSE, labels |-> FALSE, error |-> FALSE,
     celsiusRow |-> Blank, fahrenheitRow |-> Blank]

\* void drawStaticScreen(): fillScreen, the title, and the two labels when the
\* sensor is connected
drawStaticScreen(connected) ==
    [title |-> TRUE, labels |-> connected, error |-> FALSE,
     celsiusRow |-> Blank, fahrenheitRow |-> Blank]

\* void showSensorError()
showSensorError(screen) == [screen EXCEPT !.error = TRUE]

\* variant: the Fahrenheit row is not printed
updateTemperatureValuesCelsiusOnly(screen, connected, celsius, fahrenheit) ==
    IF connected
    THEN [screen EXCEPT !.celsiusRow = <<StringOf(celsius, 100)>>]
    ELSE screen

\* void updateTemperatureValues()
updateTemperatureValues(screen, connected, celsius, fahrenheit) ==
    IF connected
    THEN [screen EXCEPT !.celsiusRow = <<StringOf(celsius, 100)>>,
                        !.fahrenheitRow = <<StringOf(fahrenheit, 500)>>]
    ELSE screen

(***************************************************************************)
(* The decisions of loop().                                                *)
(***************************************************************************)
\* variant: the request goes straight on to the display state
AfterRequestSkipsWait == "UPDATE_DISPLAY"

\* line 160: the state READ_SENSOR moves to
AfterRequest == "WAIT"

\* line 190: the state WAIT moves to once the reading is taken
AfterRead == "UPDATE_DISPLAY"

\* variant: the display state is assigned again
AfterIntervalStays == "UPDATE_DISPLAY"

\* line 203: the state UPDATE_DISPLAY moves to once the read interval is over
AfterInterval == "READ_SENSOR"

\* variant: the anchor is not subtracted
ConversionElapsedNoAnchor(currentMillis, previous) ==
    currentMillis >= sensorDelayInterval

\* variant: > for >=
ConversionElapsedStrict(currentMillis, previous) ==
    Elapsed(currentMillis, previous) > sensorDelayInterval

\* line 166
ConversionElapsed(currentMillis, previous) ==
    Elapsed(currentMillis, previous) >= sensorDelayInterval

\* variant: > for >=
ReadIntervalElapsedStrict(currentMillis, previous) ==
    Elapsed(currentMillis, previous) > sensorReadInterval

\* line 202
ReadIntervalElapsed(currentMillis, previous) ==
    Elapsed(currentMillis, previous) >= sensorReadInterval

\* line 172: bool currentConnectionState
ConnectionStateOf(celsius) == celsius # DEVICE_DISCONNECTED_C

\* variant: every invalid reading counts as a change
ConnectionChangedEveryInvalid(currentConnectionState, connected) ==
    ~currentConnectionState \/ currentConnectionState # connected

\* variant: only the loss of the sensor counts as a change
ConnectionChangedOnlyLoss(currentConnectionState, connected) ==
    ~currentConnectionState /\ connected

\* line 175
ConnectionChanged(currentConnectionState, connected) ==
    currentConnectionState # connected

\* variant: any difference counts, no threshold
ReadingChangedAnyDifference(connected, celsius, previousC) ==
    connected /\ celsius # previousC

\* variant: the threshold is 0.01 for 0.1
ReadingChangedFineThreshold(connected, celsius, previousC) ==
    connected /\ Abs(celsius - previousC) * 10 >= ChangeThreshold

\* variant: the connection flag is not consulted
ReadingChangedIgnoringConnection(connected, celsius, previousC) ==
    Abs(celsius - previousC) >= ChangeThreshold

\* line 184
ReadingChanged(connected, celsius, previousC) ==
    connected /\ Abs(celsius - previousC) >= ChangeThreshold

\* variant: the flag is not consulted
DrawDueWheneverConnected(changed, connected) == connected

\* variant: the connection flag is negated
DrawDueInverted(changed, connected) == changed /\ ~connected

\* line 196
DrawDue(changed, connected) == changed /\ connected

(***************************************************************************)
(* Initial state: the globals as initialised, before setup().              *)
(***************************************************************************)
Init ==
    /\ currentState = "READ_SENSOR"
    /\ previousMillis = 0
    /\ temperatureC = InitialTemperature
    /\ temperatureF = InitialTemperature
    /\ previousTemperatureC = InitialTemperature
    /\ valueChanged = FALSE
    /\ sensorConnected = TRUE
    /\ firstRun = TRUE
    /\ tft = BlankScreen
    /\ millis = 0
    /\ uptime = 0
    /\ requestUptime = 0
    /\ commitUptime = 0
    /\ commits = 0
    /\ priorC = NoReading
    /\ storedC = InitialTemperature
    /\ valueDraws = 0
    /\ pc = "setup"
    /\ entered = None
    /\ calls = <<>>

\* the clock between two calls: dt milliseconds pass
Now(dt) == (millis + dt) % MillisModulus

Clock(dt) ==
    /\ uptime + dt <= MaxUptime
    /\ uptime' = uptime + dt
    /\ millis' = Now(dt)

\* variant of setup(): the static screen is not drawn
setupWithoutDraw ==
    /\ pc = "setup"
    /\ Clock(SetupDelay)
    /\ firstRun' = FALSE
    /\ pc' = "loop"
    /\ entered' = "setup"
    /\ calls' = <<>>
    /\ UNCHANGED <<currentState, previousMillis, temperatureC, temperatureF,
                   previousTemperatureC, valueChanged, sensorConnected, tft,
                   requestUptime, commitUptime, commits, priorC, storedC,
                   valueDraws>>

(***************************************************************************)
(* void setup(): lines 128-147.                                            *)
(***************************************************************************)
setup ==
    /\ pc = "setup"
    /\ Clock(SetupDelay)
    /\ tft' = drawStaticScreen(sensorConnected)
    /\ firstRun' = FALSE
    /\ pc' = "loop"
    /\ entered' = "setup"
    /\ calls' = <<"drawStaticScreen">>
    /\ UNCHANGED <<currentState, previousMillis, temperatureC, temperatureF,
                   previousTemperatureC, valueChanged, sensorConnected,
                   requestUptime, commitUptime, commits, priorC, storedC,
                   valueDraws>>

(***************************************************************************)
(* void loop(), case State::READ_SENSOR: lines 155-162.                    *)
(***************************************************************************)
READ_SENSOR(dt) ==
    /\ pc = "loop"
    /\ currentState = "READ_SENSOR"
    /\ Clock(dt)
    /\ currentState' = AfterRequest
    /\ previousMillis' = Now(dt)
    /\ requestUptime' = uptime + dt
    /\ entered' = currentState
    /\ calls' = <<"requestTemperatures">>
    /\ UNCHANGED <<temperatureC, temperatureF, previousTemperatureC,
                   valueChanged, sensorConnected, firstRun, tft, commitUptime,
                   commits, priorC, storedC, valueDraws, pc>>

(***************************************************************************)
(* void loop(), case State::WAIT: lines 164-192.  reading is the value     *)
(* sensors.getTempCByIndex(0) returns if it is called.                     *)
(***************************************************************************)
WAIT(dt, reading) ==
    /\ pc = "loop"
    /\ currentState = "WAIT"
    /\ Clock(dt)
    /\ entered' = currentState
    /\ IF ConversionElapsed(Now(dt), previousMillis)
       THEN LET currentConnectionState == ConnectionStateOf(reading)
                flipped == ConnectionChanged(currentConnectionState,
                                             sensorConnected)
                connected == IF flipped THEN currentConnectionState
                             ELSE sensorConnected
                changed == ReadingChanged(connected, reading,
                                          previousTemperatureC)
            IN  /\ temperatureC' = reading
                /\ temperatureF' = toFahrenheit(reading)
                /\ sensorConnected' = connected
                /\ tft' = IF ~flipped THEN tft
                          ELSE IF connected THEN drawStaticScreen(connected)
                          ELSE showSensorError(drawStaticScreen(connected))
                /\ valueChanged' = IF changed THEN TRUE ELSE valueChanged
                /\ previousTemperatureC' = IF changed THEN reading
                                           ELSE previousTemperatureC
                /\ currentState' = AfterRead
                /\ commitUptime' = uptime + dt
                /\ commits' = commits + 1
                /\ priorC' = IF commits = 0 THEN NoReading ELSE <<temperatureC>>
                /\ storedC' = previousTemperatureC
                /\ valueDraws' = 0
                /\ calls' = <<"getTempCByIndex">>
                            \o (IF flipped THEN <<"drawStaticScreen">> ELSE <<>>)
                            \o (IF flipped /\ ~connected
                                THEN <<"showSensorError">> ELSE <<>>)
       ELSE /\ calls' = <<>>
            /\ UNCHANGED <<currentState, temperatureC, temperatureF,
                           previousTemperatureC, valueChanged, sensorConnected,
                           tft, commitUptime, commits, priorC, storedC,
                           valueDraws>>
    /\ UNCHANGED <<previousMillis, requestUptime, firstRun, pc>>

(***************************************************************************)
(* void loop(), case State::UPDATE_DISPLAY: lines 194-205.                 *)
(***************************************************************************)
UPDATE_DISPLAY(dt) ==
    /\ pc = "loop"
    /\ currentState = "UPDATE_DISPLAY"
    /\ Clock(dt)
    /\ entered' = currentState
    /\ IF DrawDue(valueChanged, sensorConnected)
       THEN /\ tft' = updateTemperatureValues(tft, sensorConnected,
                                              temperatureC, temperatureF)
            /\ valueChanged' = FALSE
            /\ valueDraws' = valueDraws + 1
            /\ calls' = <<"updateTemperatureValues">>
       ELSE /\ calls' = <<>>
            /\ UNCHANGED <<tft, valueChanged, valueDraws>>
    /\ currentState' = IF ReadIntervalElapsed(Now(dt), previousMillis)
                       THEN AfterInterval ELSE currentState
    /\ UNCHANGED <<previousMillis, temperatureC, temperatureF,
                   previousTemperatureC, sensorConnected, firstRun,
                   requestUptime, commitUptime, commits, priorC, storedC, pc>>

\* one call of loop(): the switch of line 154.  The default case of line 207
\* is unreachable, currentState only ever holds the three enumerators.
loop(dt, reading) ==
    \/ READ_SENSOR(dt)
    \/ WAIT(dt, reading)
    \/ UPDATE_DISPLAY(dt)

\* the Arduino core calls setup() once and then loop() for ever
Next ==
    \/ setup
    \/ \E dt \in Steps, reading \in Readings : loop(dt, reading)

Spec == Init /\ [][Next]_vars

\* the Arduino core keeps calling loop() and the clock keeps advancing: a
\* call that can be made is made
SpecLive == Init /\ [][Next]_vars /\ WF_vars(Next)

\* the scenario of a steady sensor whose readings move between 21.95 and
\* 22.04 degrees
OscReadings == {2195, 2204}

NextOsc ==
    \/ setup
    \/ \E dt \in Steps, reading \in OscReadings : loop(dt, reading)

SpecOsc == Init /\ [][NextOsc]_vars

\* the scenario of a connected sensor at the ends of its range, -55 and 125
\* degrees, and at a value whose Fahrenheit has three decimals
RangeReadings == {-5500, 2204, 12500}

NextRange ==
    \/ setup
    \/ \E dt \in Steps, reading \in RangeReadings : loop(dt, reading)

SpecRange == Init /\ [][NextRange]_vars

(***************************************************************************)
(* Vocabulary of the properties.                                           *)
(***************************************************************************)
\* a reading that is not the disconnect sentinel
IsValid(celsius) == celsius # DEVICE_DISCONNECTED_C

\* how many times the latest loop() made the call
Count(seq, call) == Cardinality({i \in 1..Len(seq) : seq[i] = call})

\* real milliseconds since the request of the current cycle
SinceRequest == uptime - requestUptime

\* this step is a loop() call that takes a reading in WAIT
Commits == commits' = commits + 1

\* the latest loop() call took a reading
JustCommitted == entered = "WAIT" /\ currentState = "UPDATE_DISPLAY"

\* the UPDATE_DISPLAY case has run at least once since the latest reading
Displayed == commits >= 1 /\ ~JustCommitted

\* C1: the phase changes only along READ_SENSOR -> WAIT -> UPDATE_DISPLAY ->
\* READ_SENSOR; a READ_SENSOR tick always moves to WAIT, a WAIT tick stays or
\* moves to UPDATE_DISPLAY, an UPDATE_DISPLAY tick stays or moves to
\* READ_SENSOR: one transition per tick at most, along one edge.
PhaseOrder ==
    [][pc = "loop" =>
        /\ currentState = "READ_SENSOR" => currentState' = "WAIT"
        /\ currentState = "WAIT" =>
               currentState' \in {"WAIT", "UPDATE_DISPLAY"}
        /\ currentState = "UPDATE_DISPLAY" =>
               currentState' \in {"UPDATE_DISPLAY", "READ_SENSOR"}]_vars

\* a whole cycle has run and the machine is back in READ_SENSOR
PhaseOrderWitness ==
    /\ entered = "UPDATE_DISPLAY"
    /\ currentState = "READ_SENSOR"
    /\ commits >= 2

\* C2: whenever the latest tick took the reading, at least
\* sensorDelayInterval real milliseconds have passed since the request of
\* that cycle.
CommitAfterConversionWait ==
    JustCommitted => SinceRequest >= sensorDelayInterval

\* a reading taken exactly sensorDelayInterval after the request, on the far
\* side of the counter's wrap-around or not
CommitAfterConversionWaitWitness ==
    JustCommitted /\ SinceRequest = sensorDelayInterval /\ commits >= 2

\* C3: previousMillis is written in READ_SENSOR only; an UPDATE_DISPLAY tick
\* returns to READ_SENSOR exactly when sensorReadInterval real milliseconds
\* have passed since the request of the cycle, whenever the reading was
\* taken; two successive requests are at least sensorReadInterval apart.
PeriodFromRequest ==
    [][/\ previousMillis' # previousMillis => currentState = "READ_SENSOR"
       /\ (pc = "loop" /\ currentState = "UPDATE_DISPLAY") =>
              (currentState' = "READ_SENSOR"
                  <=> uptime' - requestUptime >= sensorReadInterval)
       /\ (requestUptime' # requestUptime /\ commits >= 1) =>
              requestUptime' - requestUptime >= sensorReadInterval]_vars

\* the reading was taken late, 1500 ms or more after the request, and the
\* machine still went back to READ_SENSOR exactly 2000 ms after the request
PeriodFromRequestWitness ==
    /\ entered = "UPDATE_DISPLAY"
    /\ currentState = "READ_SENSOR"
    /\ SinceRequest = sensorReadInterval
    /\ commitUptime - requestUptime >= 1500

\* C4: a reading whose validity differs from the connected flag draws the
\* static layout exactly once, with the error row exactly once when the
\* reading is invalid and not at all when it is valid; a reading of the same
\* validity, and every tick that takes no reading, draws neither.
ConnectivityRedraw ==
    [][pc = "loop" =>
        LET static == Count(calls', "drawStaticScreen")
            error  == Count(calls', "showSensorError")
            valid  == IsValid(temperatureC')
        IN  IF Commits /\ valid # sensorConnected
            THEN /\ static = 1
                 /\ error = (IF valid THEN 0 ELSE 1)
                 /\ tft' = [title |-> TRUE, labels |-> valid,
                            error |-> ~valid, celsiusRow |-> Blank,
                            fahrenheitRow |-> Blank]
            ELSE /\ static = 0
                 /\ error = 0
                 /\ tft'.title = tft.title
                 /\ tft'.labels = tft.labels
                 /\ tft'.error = tft.error]_vars

\* a reconnect: the sensor was lost, and the latest reading is valid again
\* and has redrawn the static layout without the error row
ConnectivityRedrawWitness ==
    /\ JustCommitted
    /\ priorC = <<DEVICE_DISCONNECTED_C>>
    /\ IsValid(temperatureC)
    /\ calls = <<"getTempCByIndex", "drawStaticScreen">>

\* the reading before the current one exists and is valid
PriorValid == priorC # NoReading /\ IsValid(priorC[1])

\* the static layout with the labels and nothing else
LabelledScreen ==
    [title |-> TRUE, labels |-> TRUE, error |-> FALSE,
     celsiusRow |-> Blank, fahrenheitRow |-> Blank]

\* C5, as stated: after two consecutive valid readings less than 0.1 apart,
\* no value row has been drawn for the second.
NoDrawOnCloseReadings ==
    (/\ PriorValid
     /\ IsValid(temperatureC)
     /\ Abs(temperatureC - priorC[1]) < ChangeThreshold)
        => valueDraws = 0

\* C5, amended: a valid reading less than 0.1 away from the stored value
\* previousTemperatureC leaves the stored value and the flag alone and is
\* never drawn.
NoDrawWithinThresholdOfStored ==
    (/\ commits >= 1
     /\ IsValid(temperatureC)
     /\ Abs(temperatureC - storedC) < ChangeThreshold)
        => /\ valueDraws = 0
           /\ ~valueChanged
           /\ previousTemperatureC = storedC

\* the second of two valid readings, different from the stored value but
\* within 0.1 of it, has been through its whole cycle
NoDrawWithinThresholdOfStoredWitness ==
    /\ PriorValid
    /\ IsValid(temperatureC)
    /\ temperatureC # storedC
    /\ Abs(temperatureC - storedC) < ChangeThreshold
    /\ entered = "UPDATE_DISPLAY"
    /\ currentState = "READ_SENSOR"
    /\ valueDraws = 0

\* C6, as stated: once the display state has run for the second of two
\* consecutive valid readings 0.1 or more apart, the two value rows have been
\* drawn once and show it, and the stored value is that reading.
RedrawOnDistantReadings ==
    (/\ Displayed
     /\ PriorValid
     /\ IsValid(temperatureC)
     /\ Abs(temperatureC - priorC[1]) >= ChangeThreshold)
        => /\ valueDraws = 1
           /\ previousTemperatureC = temperatureC
           /\ tft.celsiusRow = <<StringOf(temperatureC, 100)>>
           /\ tft.fahrenheitRow = <<StringOf(temperatureF, 500)>>

\* C6, amended: a valid reading 0.1 or more away from the stored value is
\* stored at once, and the first UPDATE_DISPLAY tick after it draws the two
\* value rows, once, and nothing else.
RedrawBeyondThresholdOfStored ==
    (/\ commits >= 1
     /\ IsValid(temperatureC)
     /\ Abs(temperatureC - storedC) >= ChangeThreshold)
        => /\ previousTemperatureC = temperatureC
           /\ IF JustCommitted
              THEN valueChanged /\ valueDraws = 0
              ELSE /\ ~valueChanged
                   /\ valueDraws = 1
                   /\ tft = [LabelledScreen EXCEPT
                               !.celsiusRow = <<StringOf(temperatureC, 100)>>,
                               !.fahrenheitRow =
                                   <<StringOf(temperatureF, 500)>>]

\* the second of two valid readings has been drawn
RedrawBeyondThresholdOfStoredWitness ==
    /\ Displayed
    /\ PriorValid
    /\ IsValid(temperatureC)
    /\ Abs(temperatureC - storedC) >= ChangeThreshold
    /\ valueDraws = 1

\* C7, as stated: the tick that takes the first reading draws the static
\* layout, whatever the reading.
FirstCommitDrawsStatic ==
    (commits = 1 /\ JustCommitted) => Count(calls, "drawStaticScreen") = 1

\* C7, amended: setup() draws the static layout with the labels; it stays
\* until the first reading, and the tick that takes the first reading draws
\* the static layout again exactly when that reading is invalid.
StaticDrawnBySetup ==
    /\ entered = "setup" => calls = <<"drawStaticScreen">>
    /\ (pc = "loop" /\ commits = 0) => tft = LabelledScreen
    /\ (commits = 1 /\ JustCommitted) =>
           /\ Count(calls, "drawStaticScreen")
                  = (IF IsValid(temperatureC) THEN 0 ELSE 1)
           /\ tft.title
           /\ tft.labels = IsValid(temperatureC)

\* the first reading is valid and the tick that took it drew nothing
StaticDrawnBySetupWitness ==
    /\ commits = 1
    /\ JustCommitted
    /\ IsValid(temperatureC)
    /\ calls = <<"getTempCByIndex">>
    /\ tft = LabelledScreen

\* C8: sensorConnected changes only on a tick that takes a reading whose
\* validity differs from it, and after every reading it is the validity of
\* that reading.
ConnectedTracksValidity ==
    [][/\ sensorConnected' # sensorConnected =>
              (Commits /\ IsValid(temperatureC') # sensorConnected)
       /\ Commits => sensorConnected' = IsValid(temperatureC')]_vars

\* the sensor was lost after a valid reading
ConnectedTracksValidityWitness ==
    /\ JustCommitted
    /\ PriorValid
    /\ ~IsValid(temperatureC)
    /\ ~sensorConnected

\* C9: with readings of 21.95 and 22.04 only, the value rows are drawn once
\* for the first reading and for no later one, and keep showing the first.
OscillationDrawnOnce ==
    /\ (commits = 1 /\ Displayed) => valueDraws = 1
    /\ commits >= 2 => valueDraws = 0
    /\ Displayed =>
           /\ previousTemperatureC \in OscReadings
           /\ tft.celsiusRow = <<StringOf(previousTemperatureC, 100)>>

\* three readings and more, the latest different from the one before it and
\* from the one on the screen
OscillationDrawnOnceWitness ==
    /\ commits >= 3
    /\ Displayed
    /\ priorC # <<temperatureC>>
    /\ tft.celsiusRow # <<StringOf(temperatureC, 100)>>
    /\ currentState = "READ_SENSOR"

\* C10: a WAIT tick less than sensorDelayInterval after the request changes
\* neither the phase, the anchor, the temperatures, the flags nor the display
\* and makes no call; a WAIT tick at or after it takes the reading and moves
\* to UPDATE_DISPLAY.
WaitTickFrame ==
    [][(pc = "loop" /\ currentState = "WAIT") =>
        IF uptime' - requestUptime < sensorDelayInterval
        THEN /\ UNCHANGED <<currentState, previousMillis, temperatureC,
                            temperatureF, previousTemperatureC,
                            sensorConnected, valueChanged, tft, commits>>
             /\ calls' = <<>>
        ELSE /\ currentState' = "UPDATE_DISPLAY"
             /\ Commits
             /\ calls' # <<>>
             /\ Head(calls') = "getTempCByIndex"]_vars

\* a WAIT tick 500 ms after the request, in a cycle after the first
WaitTickFrameWitness ==
    /\ entered = "WAIT"
    /\ currentState = "WAIT"
    /\ SinceRequest = 500
    /\ calls = <<>>
    /\ commits >= 1

OneDrawPerReading ==
    /\ [](valueDraws <= 1)
    /\ [][(pc = "loop" /\ currentState = "UPDATE_DISPLAY"
             /\ entered = "UPDATE_DISPLAY") =>
            /\ calls' = <<>>
            /\ tft' = tft
            /\ valueDraws' = valueDraws
            /\ ~valueChanged']_vars

\* the second UPDATE_DISPLAY tick of a cycle whose first one drew the rows
OneDrawPerReadingWitness ==
    /\ entered = "UPDATE_DISPLAY"
    /\ currentState = "UPDATE_DISPLAY"
    /\ valueDraws = 1
    /\ calls = <<>>

\* the connected flag before the latest reading: the validity of the reading
\* before it, and TRUE, the initial value, when there is none
ConnectedBefore == priorC = NoReading \/ IsValid(priorC[1])

\* the latest reading is a connectivity transition
Transition == commits >= 1 /\ IsValid(temperatureC) # ConnectedBefore

\* the screen of a lost sensor
ErrorScreen ==
    [title |-> TRUE, labels |-> FALSE, error |-> TRUE,
     celsiusRow |-> Blank, fahrenheitRow |-> Blank]

\* C13, as stated: a reading that is a connectivity transition is neither
\* stored in previousTemperatureC nor drawn on the value rows.
TransitionDrawsNoValue ==
    Transition =>
        /\ valueDraws = 0
        /\ ~valueChanged
        /\ previousTemperatureC = storedC

\* C13, amended: a reading that loses the sensor is neither stored nor
\* drawn and leaves the error screen; a reading that finds it again goes
\* through the threshold test of line 184 in the same tick: 0.1 or more away
\* from the stored value it is stored, and drawn on the first UPDATE_DISPLAY
\* tick of the same cycle, otherwise it is neither and the rows stay blank.
TransitionAppliesThreshold ==
    Transition =>
        IF ~IsValid(temperatureC)
        THEN /\ valueDraws = 0
             /\ ~valueChanged
             /\ previousTemperatureC = storedC
             /\ tft = ErrorScreen
        ELSE IF Abs(temperatureC - storedC) >= ChangeThreshold
        THEN /\ previousTemperatureC = temperatureC
             /\ IF JustCommitted
                THEN valueChanged /\ valueDraws = 0 /\ tft = LabelledScreen
                ELSE /\ ~valueChanged
                     /\ valueDraws = 1
                     /\ tft = [LabelledScreen EXCEPT
                                 !.celsiusRow = <<StringOf(temperatureC, 100)>>,
                                 !.fahrenheitRow =
                                     <<StringOf(temperatureF, 500)>>]
        ELSE /\ valueDraws = 0
             /\ ~valueChanged
             /\ previousTemperatureC = storedC
             /\ tft = LabelledScreen

\* the sensor came back with a reading 0.1 or more from the stored value,
\* and the reading has been drawn in the cycle that found it
TransitionAppliesThresholdWitness ==
    /\ Transition
    /\ priorC = <<DEVICE_DISCONNECTED_C>>
    /\ storedC # InitialTemperature
    /\ previousTemperatureC = temperatureC
    /\ valueDraws = 1

\* C14: previousTemperatureC changes only on a tick that takes a reading
\* while the flag, as updated by that tick, is true and the reading is 0.1 or
\* more from it, and then to that reading; an invalid reading leaves it; the
\* value rows are drawn only while the flag is true and are blank while it is
\* false.
StoredValueFrame ==
    [][/\ previousTemperatureC' # previousTemperatureC =>
              /\ Commits
              /\ sensorConnected'
              /\ Abs(temperatureC' - previousTemperatureC) >= ChangeThreshold
              /\ previousTemperatureC' = temperatureC'
       /\ (Commits /\ ~IsValid(temperatureC')) =>
              previousTemperatureC' = previousTemperatureC
       /\ Count(calls', "updateTemperatureValues") > 0 =>
              (sensorConnected /\ sensorConnected')
       /\ ~sensorConnected' =>
              (tft'.celsiusRow = Blank /\ tft'.fahrenheitRow = Blank)]_vars

\* an invalid reading taken after a value was stored has left it in place
StoredValueFrameWitness ==
    /\ JustCommitted
    /\ ~IsValid(temperatureC)
    /\ ~sensorConnected
    /\ previousTemperatureC \in {2195, 2204, 2213}

\* C15: once the UPDATE_DISPLAY case has run for a reading that found the
\* sensor again after a value had been stored and the sensor lost, the value
\* rows show the stored value.
ReconnectShowsStored ==
    (/\ Displayed
     /\ priorC = <<DEVICE_DISCONNECTED_C>>
     /\ IsValid(temperatureC)
     /\ storedC # InitialTemperature)
        => /\ tft.celsiusRow = <<StringOf(previousTemperatureC, 100)>>
           /\ tft.fahrenheitRow
                  = <<StringOf(toFahrenheit(previousTemperatureC), 500)>>

\* C17: once the UPDATE_DISPLAY case has run for a first reading that is
\* valid, the value rows have been drawn and show it.
FirstValidReadingDrawn ==
    (commits = 1 /\ Displayed /\ IsValid(temperatureC))
        => /\ valueDraws = 1
           /\ tft.celsiusRow = <<StringOf(temperatureC, 100)>>

\* the counter has wrapped since the request of the current cycle
Wrapped == commits + requestUptime > 0 /\ millis < previousMillis

\* C18: in a cycle whose request came before a wrap-around of millis() and
\* whose ticks come after it, the unsigned difference is the real time since
\* the request; the reading is taken no earlier than sensorDelayInterval and
\* READ_SENSOR is entered no earlier than sensorReadInterval after the
\* request; and the cycle does not stall: WAIT is left by the first tick at
\* or after sensorDelayInterval, UPDATE_DISPLAY by the first tick at or after
\* sensorReadInterval.
WrapAroundSafe ==
    (pc = "loop" /\ Wrapped) =>
        /\ currentState # "READ_SENSOR" =>
               Elapsed(millis, previousMillis) = SinceRequest
        /\ JustCommitted => SinceRequest >= sensorDelayInterval
        /\ (entered = "UPDATE_DISPLAY" /\ currentState = "READ_SENSOR") =>
               SinceRequest >= sensorReadInterval
        /\ currentState = "WAIT" => SinceRequest < sensorDelayInterval
        /\ (entered = "UPDATE_DISPLAY" /\ currentState = "UPDATE_DISPLAY") =>
               SinceRequest < sensorReadInterval

\* a request before the wrap-around, its reading exactly 750 ms later and
\* after the wrap-around
WrapAroundSafeWitness ==
    /\ Wrapped
    /\ JustCommitted
    /\ SinceRequest = sensorDelayInterval
    /\ uptime >= MillisModulus
    /\ requestUptime < MillisModulus

\* C19: valueChanged implies sensorConnected and is false in READ_SENSOR and
\* in WAIT; only a tick that takes a reading sets it, every UPDATE_DISPLAY
\* tick leaves it false; the value rows, once drawn for a reading, show that
\* reading.
PendingRedrawScoped ==
    /\ [](/\ valueChanged => sensorConnected
          /\ currentState \in {"READ_SENSOR", "WAIT"} => ~valueChanged
          /\ valueDraws >= 1 =>
                 tft.celsiusRow = <<StringOf(temperatureC, 100)>>)
    /\ [][/\ (valueChanged' /\ ~valueChanged) => Commits
          /\ (pc = "loop" /\ currentState = "UPDATE_DISPLAY") =>
                 ~valueChanged']_vars

\* a reading of a later cycle has set the flag
PendingRedrawScopedWitness ==
    /\ JustCommitted
    /\ valueChanged
    /\ sensorConnected
    /\ commits >= 2

\* a further call of loop() fits before the end of the modelled time
CanTick == pc = "loop" /\ uptime + StepUnit <= MaxUptime

\* C16: while loop() keeps being called, a request is followed by the WAIT
\* state, the WAIT state by a reading once sensorDelayInterval is over, the
\* reading by a new request once sensorReadInterval is over, for valid and
\* for invalid readings; an invalid reading is followed by a new request.
\* Each step is claimed of the states from which the modelled time suffices.
ForwardProgress ==
    /\ (currentState = "READ_SENSOR" /\ CanTick)
           ~> (currentState = "WAIT" /\ entered = "READ_SENSOR")
    /\ (currentState = "WAIT" /\ pc = "loop"
          /\ requestUptime + sensorDelayInterval + StepUnit <= MaxUptime)
           ~> JustCommitted
    /\ (currentState = "UPDATE_DISPLAY" /\ pc = "loop"
          /\ requestUptime + sensorReadInterval + StepUnit <= MaxUptime)
           ~> (currentState = "READ_SENSOR" /\ entered = "UPDATE_DISPLAY")
    /\ (JustCommitted /\ ~IsValid(temperatureC)
          /\ requestUptime + sensorReadInterval
                 + (MaxStepUnits + 1) * StepUnit <= MaxUptime)
           ~> (currentState = "WAIT" /\ entered = "READ_SENSOR"
                 /\ ~sensorConnected)

\* an invalid reading has been followed by the request of the next cycle
ForwardProgressWitness ==
    /\ currentState = "WAIT"
    /\ entered = "READ_SENSOR"
    /\ ~IsValid(temperatureC)
    /\ ~sensorConnected
    /\ commits >= 2

====
